---------------------------- MODULE Spec2Model ----------------------------
(***************************************************************************)
(* Model of tg-archive's incremental synchronisation (tgarchive/sync.py,   *)
(* tgarchive/db.py, the sync branch of tgarchive/cli.py).                  *)
(*                                                                         *)
(* The remote group is a growing list of messages; remote[i] tells whether *)
(* the provider returns message id i with a sender.  Who the sender is and *)
(* whether the message has an attachment are fixed functions of the id     *)
(* (SenderOf, HasMedia), so that both kinds of message and several senders *)
(* occur in every remote of two or more messages.  The local store is the  *)
(* SQLite database: `committed' is what is durable on disk, `db' is what   *)
(* the open connection sees (committed rows plus the writes of the open    *)
(* transaction).  A table is a bag of rows, so that a write that failed to *)
(* replace a row would show as a duplicate.                                *)
(*                                                                         *)
(* One run of the program is StartRun (cli.amain and the head of           *)
(* Sync.sync), ResolveGroup, then the fetch loop of Sync.sync, one action  *)
(* per statement group, and FinalCommit / FinishTakeout.  A run ends       *)
(* "done", "cancelled" (operator interrupt), "crashed" (uncaught           *)
(* exception) or "fatal" (exit(1)); afterwards the program may be run      *)
(* again.                                                                  *)
(***************************************************************************)
EXTENDS Integers, Sequences, FiniteSets, Bags, TLC

VARIABLES
    remote,      \* the remote's messages: remote[i] iff id i has a sender
    postsLeft,   \* how many more messages will be posted to the group
    cfg,         \* config: fetch_batch_size, fetch_limit, use_takeout
    committed,   \* the durable store: [messages, users, media], bags of rows
    db,          \* the store as the open connection sees it
    pc,          \* position of the run
    ids,         \* sync()'s ids argument (a list; <<>> when absent)
    from_id,     \* sync()'s from_id argument (0 when absent)
    last_id,     \* sync()'s last_id: the fetch offset (the id list when ids)
    n,           \* sync()'s n: messages persisted by this run
    has,         \* sync()'s has
    page,        \* raw messages of the fetched page not yet iterated
    m,           \* id of the message last yielded by _get_messages (0: none)
    takeout,     \* "none" | "open" | "finished": the takeout session
    exit_code,   \* -1 while running or not started, else the exit status
    runsLeft,    \* how many more times the program may be started
    log,         \* history: ids passed to insert_message in this run, in order
    fetched,     \* history: ids with a sender returned by the run's fetches
    pending,     \* history: insert_message calls since the last commit
    hiCommitted, \* history: highest id this run inserted and committed
    start,       \* history: [cursor, store]: first offset, store at start
    prev,        \* history: summary of the run before this one
    nego,        \* new_client: [retry, signal, unconfirmed]: takeout
                 \* attempts that failed, the provider's last signal ("none",
                 \* "delay", "invalid"), and as history the delay signals
                 \* the operator has not confirmed
    error,       \* the exception that ended the run ("none": none)
    calls,       \* history: the provider requests of sync(), in order, and
                 \* a flood-wait answer
    move_files,  \* the mover's queue of jobs (deque)
    move_event,  \* the mover's event: TRUE when set
    exit_signaled, \* the mover's exit flag
    wpc,         \* position of the moving thread
    job,         \* the moving thread's locals src, dest (NoJob: unbound)
    tmpdir,      \* files in media_tmp_dir
    mediadir,    \* files in media_dir
    dpc,         \* position of the main flow in the media path
    dmsg,        \* id of the message whose media is being fetched
    error_sleep_s, \* _download_media's error_sleep_s
    sleeps,      \* history: the sleeps of the current _download_media call
    submitted,   \* history: the jobs passed to fmove, in order
    moved,       \* history: the jobs moved, in order
    raw,         \* a raw provider object given to _make_poll or _get_user
    rec          \* what was made of it ([kind |-> "pending"]: nothing yet)

syncVars == <<remote, postsLeft, cfg, committed, db, pc, ids, from_id, last_id,
              n, has, page, m, takeout, exit_code, runsLeft, log, fetched,
              pending, hiCommitted, start, prev, nego, error, calls>>

moverVars == <<move_files, move_event, exit_signaled, wpc, job, tmpdir,
               mediadir, dpc, dmsg, error_sleep_s, sleeps, submitted, moved>>

recVars == <<raw, rec>>

vars == <<syncVars, moverVars, recVars>>

(***************************************************************************)
(* Bounds of the model.                                                    *)
(***************************************************************************)
MaxId == 3          \* ids of the small remote: 1..MaxId
MaxBatch == 2       \* fetch_batch_size ranges over 1..MaxBatch
MaxLimit == 2       \* fetch_limit ranges over 0..MaxLimit (0: no limit)
MaxRuns == 2        \* runs of the program in one behaviour
NumUsers == 2       \* distinct senders
BigRemote == 302    \* size of the large remote
BigBatchA == 100    \* batch sizes tried against the large remote
BigBatchB == 400
MaxMedia == 2       \* messages with a file in the media path: ids 2, 4, ..
MaxFails == 2       \* failed attempts of one download
MaxAnswers == 2     \* answers of a poll: 0..MaxAnswers
MaxResults == 3     \* per-answer results the provider reports for a poll
MaxVoters == 1      \* voters of one answer, and total voters
MaxMsg == 2         \* ids of the messages whose rows are written: 1..MaxMsg
MaxStem == 252      \* characters before the extension of a downloaded file
NearLimit == 12     \* the long stems tried: MaxStem - NearLimit .. MaxStem
MaxExt == 8         \* characters after the dot of a downloaded file

(***************************************************************************)
(* Program constants.                                                      *)
(***************************************************************************)
CommitEvery == 300  \* sync.py: "if n % 300 == 0"
TakeoutTries == 3   \* sync.py: "for retry in range(3)"
FirstErrorSleep == 60 \* sync.py: "error_sleep_s = 60"
NameLimit == 250    \* sync.py: "[:250 - len(ext)]"
ExtLimit == 6       \* sync.py: "if len(ext) > 6"

\* The exceptions that end a run, by the statement that raises them.
UnhashableList == "TypeError: unhashable type: 'list'"
NoneNotIterable == "TypeError: 'NoneType' object is not iterable"
WarningNoMsg == "TypeError: warning() missing 1 required positional argument"
TakeoutFailed == "TakeoutFailedError"
TakeoutInvalid == "TakeoutInvalidError"

RunningPcs == {"new_client", "await_input", "resolve", "fetch", "sleep",
               "iter", "ins_media", "ins_msg", "page_end", "final", "takeout"}
EndPcs == {"done", "cancelled", "crashed", "fatal"}

Min(a, b) == IF a <= b THEN a ELSE b
SetMax(S) == CHOOSE x \in S : \A y \in S : y <= x
SetMin(S) == CHOOSE x \in S : \A y \in S : x <= y

(***************************************************************************)
(* The store (db.py).                                                      *)
(***************************************************************************)
EmptyStore == [messages |-> EmptyBag, users |-> EmptyBag, media |-> EmptyBag]

IdsOf(tbl) == {r.id : r \in BagToSet(tbl)}

\* The highest message id of a store (0 when it has none), for the
\* properties below.
MaxStoredId(store) ==
    LET S == IdsOf(store.messages)
    IN  IF S = {} THEN 0 ELSE CHOOSE x \in S : \A y \in S : y <= x

\* A write that adds the row without replacing the one with the same id.
InsertNoReplace(tbl, row) == tbl (+) SetToBag({row})

\* INSERT OR REPLACE / INSERT .. ON CONFLICT (id) DO UPDATE: the row with
\* this id, if any, is replaced; every other row is left alone.
Upsert(tbl, row) ==
    LET keep == {r \in BagToSet(tbl) : r.id # row.id}
    IN  [r \in keep |-> tbl[r]] (+) SetToBag({row})

\* The oldest instead of the newest row (ORDER BY id ASC).
LastMessageIdOldest(store) ==
    IF IdsOf(store.messages) = {} THEN 0 ELSE SetMin(IdsOf(store.messages))

\* DB.get_last_message_id: the highest stored id, 0 for an empty table.
LastMessageId(store) ==
    IF IdsOf(store.messages) = {} THEN 0 ELSE SetMax(IdsOf(store.messages))

(***************************************************************************)
(* Records built from a raw message (Sync._get_messages, _get_user,        *)
(* _get_media).                                                            *)
(***************************************************************************)
SenderOf(i) == ((i - 1) % NumUsers) + 1

HasSender(i) == remote[i]

UserRow(i) == [id |-> SenderOf(i)]

HasMedia(i) == i % 2 = 0

\* Every other message with a file is a photo.
IsPhoto(i) == i % 4 = 2

\* A download is named by its message and its kind ("file", "thumb",
\* "avatar"): <<i, kind>> stands for the file and for the name the provider
\* gives it in the temp dir.  A name in the media dir is a record: what the
\* code puts before the provider's name (a prefix, an id) and that name.
\* NoName is None.
NoName == [prefix |-> "", id |-> 0, base |-> <<>>]

\* _download_media, "newname = f'{msg.id} {stem}'[:250 - len(ext)] + ext"
NewNameOf(i) == [prefix |-> "", id |-> i, base |-> <<i, "file">>]

\* _download_media, "tname = os.path.basename(tpath)"
ThumbNameOf(i) == [prefix |-> "", id |-> 0, base |-> <<i, "thumb">>]

\* _download_avatar, "fpath_prefix + os.path.basename(profile_photo)" with
\* fpath_prefix = f'avatar_{user.id} '; f is the downloaded file.
AvatarNameOf(f) == [prefix |-> "avatar_", id |-> SenderOf(f[1]), base |-> f]

\* The name in the media dir that fmove is given for a download.
FinalName(f) ==
    IF f[2] = "file" THEN NewNameOf(f[1])
    ELSE IF f[2] = "thumb" THEN ThumbNameOf(f[1])
    ELSE AvatarNameOf(f)

\* _get_media, "Media(id=msg.id, type="photo", url=fname, title=basename,
\* description=None, thumb=thumb)"
MediaRow(i) ==
    [id |-> i, type |-> "photo", url |-> NewNameOf(i),
     title |-> <<i, "file">>,
     thumb |-> IF IsPhoto(i) THEN ThumbNameOf(i) ELSE NoName]

MessageRow(i) ==
    [id |-> i, user_id |-> SenderOf(i),
     media_id |-> IF HasMedia(i) THEN i ELSE 0]

\* A writer that forgets the media row.
InsertMediaSkip(store, i) == store

\* DB.insert_user, DB.insert_media, DB.insert_message
InsertUser(store, i) ==
    [store EXCEPT !.users = Upsert(@, UserRow(i))]

InsertMedia(store, i) ==
    [store EXCEPT !.media = Upsert(@, MediaRow(i))]

InsertMessageNoReplace(store, i) ==
    [store EXCEPT !.messages = InsertNoReplace(@, MessageRow(i))]

InsertMessage(store, i) ==
    [store EXCEPT !.messages = Upsert(@, MessageRow(i))]

(***************************************************************************)
(* The remote API (client.get_messages as called by _fetch_messages).      *)
(***************************************************************************)
remoteMax == Len(remote)

\* Newest first: the same ids in descending order (reverse=False).
FetchPageNewestFirst(offset, limit) ==
    LET cnt == IF offset < remoteMax THEN Min(limit, remoteMax - offset) ELSE 0
    IN  [j \in 1..cnt |-> offset + cnt + 1 - j]

\* get_messages(offset_id=offset, limit=limit, reverse=True): the messages
\* with id > offset, oldest first, at most limit of them.
FetchPage(offset, limit) ==
    LET cnt == IF offset < remoteMax THEN Min(limit, remoteMax - offset) ELSE 0
    IN  [j \in 1..cnt |-> offset + j]

\* Indexes of the page's messages that _get_messages does not skip.
UsableIdx(p) == {j \in 1..Len(p) : HasSender(p[j])}

(***************************************************************************)
(* Loop decisions of Sync.sync.                                            *)
(***************************************************************************)
\* Never commits inside a page.
ShouldCommitNever(count) == FALSE

\* "if n % 300 == 0"
ShouldCommit(count) == count % CommitEvery = 0

\* "if 0 < self.config["fetch_limit"] <= n or ids"
StopAfterMessage(count) ==
    (0 < cfg.fetch_limit /\ cfg.fetch_limit <= count) \/ ids # <<>>

\* Stops after the first page.
MorePagesNever(h) == FALSE

\* "if has: ... else: break"
MorePages(h) == h

(***************************************************************************)
(* Initial states.                                                         *)
(***************************************************************************)
NoNego == [retry |-> 0, signal |-> "none", unconfirmed |-> 0]

NoPrev == [outcome |-> "none", default |-> FALSE, cursor |-> 0,
           remoteMax |-> 0, resume |-> 0]

InitRun ==
    /\ committed = EmptyStore
    /\ db = EmptyStore
    /\ pc = "idle"
    /\ ids = <<>>
    /\ from_id = 0
    /\ last_id = 0
    /\ n = 0
    /\ has = FALSE
    /\ page = <<>>
    /\ m = 0
    /\ takeout = "none"
    /\ exit_code = -1
    /\ log = <<>>
    /\ fetched = {}
    /\ pending = 0
    /\ hiCommitted = 0
    /\ start = [cursor |-> 0, store |-> EmptyStore]
    /\ prev = NoPrev
    /\ nego = NoNego
    /\ error = "none"
    /\ calls = <<>>

\* The moving thread's locals before the first "src, dest = ..".
NoJob == <<>>

\* Import of tgarchive.sync: empty queue, event clear, no exit signal, the
\* moving thread started; the directories are empty.
InitMover ==
    /\ move_files = <<>>
    /\ move_event = FALSE
    /\ exit_signaled = FALSE
    /\ wpc = "wait"
    /\ job = NoJob
    /\ tmpdir = {}
    /\ mediadir = {}
    /\ dpc = "between"
    /\ dmsg = 0
    /\ error_sleep_s = 0
    /\ sleeps = <<>>
    /\ submitted = <<>>
    /\ moved = <<>>

Pending == [kind |-> "pending"]

\* No raw object in hand.
InitRec ==
    /\ raw = [kind |-> "none"]
    /\ rec = Pending

Init ==
    /\ remote = <<>>
    /\ postsLeft = MaxId
    /\ cfg \in [fetch_batch_size : 1..MaxBatch, fetch_limit : 0..MaxLimit,
                use_takeout : BOOLEAN]
    /\ runsLeft = MaxRuns
    /\ InitRun
    /\ InitMover
    /\ InitRec

\* A large remote, to exercise the commit every CommitEvery messages.
InitBig ==
    /\ remote = [i \in 1..(BigRemote - 1) |->
                   i # 2]
    /\ postsLeft = 1
    /\ cfg \in [fetch_batch_size : {BigBatchA, BigBatchB}, fetch_limit : {0},
                use_takeout : BOOLEAN]
    /\ runsLeft = 1
    /\ InitRun
    /\ InitMover
    /\ InitRec

(***************************************************************************)
(* Environment: a new message is posted to the group (between runs).       *)
(***************************************************************************)
Post(k) ==
    /\ pc = "idle"
    /\ postsLeft > 0
    /\ postsLeft' = postsLeft - 1
    /\ remote' = Append(remote, k)
    /\ UNCHANGED <<cfg, committed, db, pc, ids, from_id, last_id, n, has,
                   page, m, takeout, exit_code, runsLeft, log, fetched,
                   pending, hiCommitted, start, prev, nego, error, calls>>
    /\ UNCHANGED <<moverVars, recVars>>

(***************************************************************************)
(* The arguments a run may be given.                                       *)
(***************************************************************************)
IdLists == {<<>>, <<2>>, <<1, 3>>}
FromIds == 0..(MaxId - 1)

\* A from-id that is given but is not above 0.  What the provider answers to
\* such an offset is not in the source, so it is tried only together with
\* an id list, where sync() does not use it.
FromIdBelowOne == -1

\* Accepts every combination of arguments.
RejectArgsNever(idsArg, fromArg) == FALSE

\* "if args.id and args.from_id and args.from_id > 0"
RejectArgs(idsArg, fromArg) == idsArg # <<>> /\ fromArg # 0 /\ fromArg > 0

IsDefault == ids = <<>> /\ from_id = 0

\* Passes over the from-id.
FirstOffsetNoFromId(idsArg, fromArg, store) ==
    IF idsArg # <<>> THEN idsArg ELSE LastMessageId(store)

\* Sync.sync, "if ids: .. elif from_id: .. else: ..get_last_message_id()":
\* the first offset of the run.  No --from-id (None) and --from-id 0 are
\* both fromArg = 0: cli.amain and sync() test the argument only for truth
\* before they use it, so the two command lines run alike.
FirstOffset(idsArg, fromArg, store) ==
    IF idsArg # <<>> THEN idsArg
    ELSE IF fromArg # 0 THEN fromArg
    ELSE LastMessageId(store)

\* cli.amain (sync branch) and the head of Sync.sync: the arguments are
\* checked, the store is opened, the session is created (with takeout: the
\* negotiation of new_client follows), and the first offset is chosen.  The
\* offset is read from the store at the head of sync(), after new_client;
\* nothing writes to the store in between.
StartRun(idsArg, fromArg) ==
    /\ pc = "idle"
    /\ runsLeft > 0
    /\ runsLeft' = runsLeft - 1
    /\ ids' = idsArg
    /\ from_id' = fromArg
    /\ IF RejectArgs(idsArg, fromArg)
         THEN \* "pass either --id or --from-id but not both"; sys.exit(1)
              /\ pc' = "fatal"
              /\ exit_code' = 1
              /\ UNCHANGED <<last_id, start>>
         ELSE /\ pc' = IF cfg.use_takeout THEN "new_client" ELSE "resolve"
              /\ exit_code' = -1
              /\ last_id' = FirstOffset(idsArg, fromArg, db)
              /\ start' = [cursor |-> IF idsArg # <<>> THEN 0
                                      ELSE FirstOffset(idsArg, fromArg, db),
                           store |-> committed]
    /\ UNCHANGED <<remote, postsLeft, cfg, committed, db, n, has, page, m, log,
                   fetched, pending, hiCommitted, prev, takeout, nego, error,
                   calls>>
    /\ UNCHANGED <<moverVars, recVars>>

\* The process ends without committing: the open transaction is lost, and
\* so are the locals of sync().
EndWith(outcome, code) ==
    /\ pc' = outcome
    /\ exit_code' = code
    /\ db' = committed
    /\ page' = <<>>
    /\ last_id' = 0
    /\ n' = 0
    /\ has' = FALSE
    /\ m' = 0
    /\ log' = <<>>
    /\ UNCHANGED <<remote, postsLeft, cfg, committed, ids, from_id, takeout,
                   runsLeft, fetched, pending, hiCommitted, start, prev>>

\* The run ends with an uncaught exception.
Crash(err) ==
    /\ EndWith("crashed", 1)
    /\ error' = err
    /\ UNCHANGED <<nego, calls>>

\* What the provider may answer to a takeout attempt: the takeout session,
\* TakeoutInitDelayError, or TakeoutInvalidError.
TakeoutSignals == {"ok", "delay", "invalid"}

\* Goes on to the next pass without asking the operator.
AfterDelaySilent == "new_client"

\* new_client, "except errors.TakeoutInitDelayError": the guidance is
\* logged and input() blocks.
AfterDelay == "await_input"

\* new_client, one pass of "for retry in range(3)": client.takeout() and the
\* probe get_messages("me").  On success the takeout client is returned; on
\* TakeoutInitDelayError the guidance is logged and input() waits for the
\* operator; on TakeoutInvalidError the exception is logged.  In both cases
\* the loop goes on with the next pass.
TakeoutAttempt(signal) ==
    /\ pc = "new_client"
    /\ nego.retry < TakeoutTries
    /\ IF signal = "ok"
         THEN /\ takeout' = "open"
              /\ pc' = "resolve"
              /\ nego' = NoNego
         ELSE /\ nego' = [retry |-> nego.retry + 1, signal |-> signal,
                          unconfirmed |-> nego.unconfirmed
                                       + (IF signal = "delay" THEN 1 ELSE 0)]
              /\ pc' = IF signal = "delay" THEN AfterDelay ELSE "new_client"
              /\ UNCHANGED takeout
    /\ UNCHANGED <<remote, postsLeft, cfg, committed, db, ids, from_id, last_id,
                   n, has, page, m, exit_code, runsLeft, log, fetched, pending,
                   hiCommitted, start, prev, error, calls>>
    /\ UNCHANGED <<moverVars, recVars>>

\* new_client, "input()" returns: the operator has pressed Enter;
\* "trying again.." is logged and the pass ends.
OperatorConfirms ==
    /\ pc = "await_input"
    /\ pc' = "new_client"
    /\ nego' = [nego EXCEPT !.unconfirmed = @ - 1]
    /\ UNCHANGED <<remote, postsLeft, cfg, committed, db, ids, from_id, last_id,
                   n, has, page, m, takeout, exit_code, runsLeft, log, fetched,
                   pending, hiCommitted, start, prev, error, calls>>
    /\ UNCHANGED <<moverVars, recVars>>

\* new_client, the "else" of the loop: "logging.warning()(...)" calls
\* warning without its msg argument, which raises TypeError before
\* "raise TakeoutFailedError()" is reached.
TakeoutExhausted ==
    /\ pc = "new_client"
    /\ nego.retry = TakeoutTries
    /\ Crash(WarningNoMsg)
    /\ UNCHANGED <<moverVars, recVars>>

\* Resolves the identifier without syncing the entity cache first.
GroupIdCallsNoSync == <<"get_entity">>

\* The provider requests of _get_group_id, in order.
GroupIdCalls == <<"get_dialogs", "get_entity">>

\* Sync._get_group_id: get_dialogs, then get_entity: the group resolves, or
\* ValueError and exit(1).
ResolveGroup ==
    /\ pc = "resolve"
    /\ calls' = calls \o GroupIdCalls
    /\ \/ /\ pc' = "fetch"
          /\ n' = 0
          /\ UNCHANGED <<remote, postsLeft, cfg, committed, db, ids, from_id,
                         last_id, has, page, m, takeout, exit_code, runsLeft,
                         log, fetched, pending, hiCommitted, start, prev>>
       \/ EndWith("fatal", 1)
    /\ UNCHANGED <<nego, error>>
    /\ UNCHANGED <<moverVars, recVars>>

\* The history of requests with one more request (each kind is recorded
\* once, at its first occurrence).
Requested(cs, c) ==
    IF \E j \in 1..Len(cs) : cs[j] = c THEN cs ELSE Append(cs, c)

\* "has = False" and the call of _get_messages / _fetch_messages.
Fetch ==
    /\ pc = "fetch"
    /\ IF ids # <<>>
         THEN \* "**({ids: ids})": a list as a dict key raises TypeError
              Crash(UnhashableList)
         ELSE LET p == FetchPage(last_id, cfg.fetch_batch_size) IN
              /\ pc' = "iter"
              /\ has' = FALSE
              /\ page' = p
              /\ fetched' = fetched \cup {p[j] : j \in UsableIdx(p)}
              /\ calls' = Requested(calls, "get_messages")
              /\ UNCHANGED <<remote, postsLeft, cfg, committed, db, ids, from_id,
                             last_id, n, m, takeout, exit_code, runsLeft, log,
                             pending, hiCommitted, start, prev, nego, error>>
    /\ UNCHANGED <<moverVars, recVars>>

\* The provider answers the fetch with FloodWaitError: _fetch_messages logs
\* it and returns None, and "for m in messages" raises TypeError.
FloodWait ==
    /\ pc = "fetch"
    /\ ids = <<>>
    /\ EndWith("crashed", 1)
    /\ error' = NoneNotIterable
    /\ calls' = Append(Requested(calls, "get_messages"), "FloodWaitError")
    /\ UNCHANGED nego
    /\ UNCHANGED <<moverVars, recVars>>

\* _get_messages runs to its next yield (messages without a sender are
\* skipped); the loop body sets "has = True" and calls
\* "self.db.insert_user(m.user)".  When the page is used up the loop ends.
NextMessage ==
    /\ pc = "iter"
    /\ IF UsableIdx(page) = {}
         THEN /\ pc' = "page_end"
              /\ page' = <<>>
              /\ UNCHANGED <<m, has, db>>
         ELSE LET j == SetMin(UsableIdx(page)) IN
              /\ m' = page[j]
              /\ page' = SubSeq(page, j + 1, Len(page))
              /\ has' = TRUE
              /\ db' = InsertUser(db, page[j])
              /\ pc' = IF HasMedia(page[j]) THEN "ins_media" ELSE "ins_msg"
    /\ UNCHANGED <<remote, postsLeft, cfg, committed, ids, from_id, last_id,
                   n, takeout, exit_code, runsLeft, log, fetched, pending,
                   hiCommitted, start, prev, nego, error, calls>>
    /\ UNCHANGED <<moverVars, recVars>>

\* "if m.media: self.db.insert_media(m.media)"
StepInsertMedia ==
    /\ pc = "ins_media"
    /\ db' = InsertMedia(db, m)
    /\ pc' = "ins_msg"
    /\ UNCHANGED <<remote, postsLeft, cfg, committed, ids, from_id, last_id, n,
                   has, page, m, takeout, exit_code, runsLeft, log, fetched,
                   pending, hiCommitted, start, prev, nego, error, calls>>
    /\ UNCHANGED <<moverVars, recVars>>

\* "self.db.insert_message(m)", "n += 1", the commit every 300 messages and
\* the limit check that ends the page early.
StepInsertMessage ==
    /\ pc = "ins_msg"
    /\ LET db1 == InsertMessage(db, m)
           commit == ShouldCommit(n + 1)
           stop == StopAfterMessage(n + 1)
       IN  /\ db' = db1
           /\ n' = n + 1
           /\ log' = Append(log, m)
           /\ committed' = IF commit THEN db1 ELSE committed
           /\ pending' = IF commit THEN 0 ELSE pending + 1
           /\ hiCommitted' = IF commit THEN SetMax({hiCommitted, m})
                             ELSE hiCommitted
           /\ has' = IF stop THEN FALSE ELSE has
           /\ page' = IF stop THEN <<>> ELSE page
           /\ pc' = IF stop THEN "page_end" ELSE "iter"
    /\ UNCHANGED <<remote, postsLeft, cfg, ids, from_id, last_id, m, takeout,
                   exit_code, runsLeft, fetched, start, prev, nego, error,
                   calls>>
    /\ UNCHANGED <<moverVars, recVars>>

HighestOf(s) == IF Len(s) = 0 THEN 0 ELSE SetMax({s[j] : j \in 1..Len(s)})

\* Requests the next page at once.
BeforeNextPageNoWait == "fetch"

\* "if has: .. wait_s = self.config["fetch_wait"] .. time.sleep(wait_s)":
\* the run sleeps for the configured wait before the loop goes round.
BeforeNextPage == "sleep"

NextOffsetKept(offset, last) == offset

\* "last_id = m.id": the offset of the next page request is the id of the
\* message the loop handled last, whatever the offset was.
NextOffset(offset, last) == last

\* After the page: "self.db.commit()", then either "last_id = m.id" and the
\* sleep of fetch_wait before the next fetch, or the end of the loop.
PageEnd ==
    /\ pc = "page_end"
    /\ committed' = db
    /\ pending' = 0
    /\ hiCommitted' = SetMax({hiCommitted, HighestOf(log)})
    /\ IF MorePages(has)
         THEN /\ last_id' = NextOffset(last_id, m)
              /\ pc' = BeforeNextPage
         ELSE /\ pc' = "final"
              /\ UNCHANGED last_id
    /\ UNCHANGED <<remote, postsLeft, cfg, db, ids, from_id, n, has, page, m,
                   takeout, exit_code, runsLeft, log, fetched, start, prev,
                   nego, error, calls>>
    /\ UNCHANGED <<moverVars, recVars>>

\* "time.sleep(wait_s)" returns and the loop goes on to the next page
\* request.
Sleep ==
    /\ pc = "sleep"
    /\ pc' = "fetch"
    /\ UNCHANGED <<remote, postsLeft, cfg, committed, db, ids, from_id, last_id,
                   n, has, page, m, takeout, exit_code, runsLeft, log, fetched,
                   pending, hiCommitted, start, prev, nego, error, calls>>
    /\ UNCHANGED <<moverVars, recVars>>

\* After the loop: "self.db.commit()"
FinalCommit ==
    /\ pc = "final"
    /\ committed' = db
    /\ pending' = 0
    /\ IF cfg.use_takeout
         THEN pc' = "takeout" /\ UNCHANGED exit_code
         ELSE pc' = "done" /\ exit_code' = 0
    /\ UNCHANGED <<remote, postsLeft, cfg, db, ids, from_id, last_id, n, has,
                   page, m, takeout, runsLeft, log, fetched, hiCommitted,
                   start, prev, nego, error, calls>>
    /\ UNCHANGED <<moverVars, recVars>>

\* "await self.finish_takeout()"
FinishTakeout ==
    /\ pc = "takeout"
    /\ takeout' = "finished"
    /\ pc' = "done"
    /\ exit_code' = 0
    /\ UNCHANGED <<remote, postsLeft, cfg, committed, db, ids, from_id, last_id,
                   n, has, page, m, runsLeft, log, fetched, pending,
                   hiCommitted, start, prev, nego, error, calls>>
    /\ UNCHANGED <<moverVars, recVars>>

\* The operator interrupts the run: sync() has no handler, the exception
\* leaves it at once; cli.amain logs "sync cancelled manually" and exits 1.
\* (During new_client the interrupt is outside cli.amain's handler and ends
\* the process as an uncaught KeyboardInterrupt; new_client's locals are
\* lost with it.)
Interrupt ==
    /\ pc \in RunningPcs
    /\ EndWith("cancelled", 1)
    /\ nego' = NoNego
    /\ UNCHANGED <<error, calls>>
    /\ UNCHANGED <<moverVars, recVars>>

\* The highest id the run has committed, or, when it has committed none,
\* the highest id that was stored before it.
HighestCommitted ==
    IF hiCommitted > 0 THEN hiCommitted ELSE MaxStoredId(start.store)

\* What a later run can depend on: how the run ended, and for a completed
\* run its first offset and the size of the remote, for a cancelled run
\* whether it was a default run and the highest id it left committed.
Summary ==
    IF pc = "done" /\ ids = <<>>
      THEN [outcome |-> "done", default |-> FALSE, cursor |-> start.cursor,
            remoteMax |-> remoteMax, resume |-> 0]
    ELSE IF pc = "cancelled" /\ ids = <<>>
      THEN [outcome |-> "cancelled", default |-> IsDefault, cursor |-> 0,
            remoteMax |-> 0, resume |-> HighestCommitted]
    ELSE [outcome |-> "other", default |-> FALSE, cursor |-> 0,
          remoteMax |-> 0, resume |-> 0]

\* The process is gone: nothing of it is left but the store on disk (and,
\* for the history, the summary of the run).
ProcessExit ==
    /\ pc \in EndPcs
    /\ pc' = "idle"
    /\ prev' = Summary
    /\ ids' = <<>>
    /\ from_id' = 0
    /\ last_id' = 0
    /\ n' = 0
    /\ has' = FALSE
    /\ page' = <<>>
    /\ m' = 0
    /\ takeout' = "none"
    /\ exit_code' = -1
    /\ log' = <<>>
    /\ fetched' = {}
    /\ pending' = 0
    /\ hiCommitted' = 0
    /\ start' = [cursor |-> 0, store |-> EmptyStore]
    /\ nego' = NoNego
    /\ error' = "none"
    /\ calls' = <<>>
    /\ UNCHANGED <<remote, postsLeft, cfg, committed, db, runsLeft>>
    /\ UNCHANGED <<moverVars, recVars>>

(***************************************************************************)
(* The media path: _get_media / _download_media in the main flow, fmove,   *)
(* and the moving thread.  The messages of this path are those with a file *)
(* (HasMedia), ids 2, 4, ..; every other one of them is a photo, which has *)
(* a thumbnail.  A file is named by its message and its kind; the job      *)
(* <<i, kind>> moves that file from media_tmp_dir to media_dir.  After the *)
(* file and the thumbnail comes the avatar of the message's sender.        *)
(***************************************************************************)
\* Takes the newest job instead of the oldest (pop).
PopNewest(q) == [job |-> q[Len(q)], rest |-> SubSeq(q, 1, Len(q) - 1)]

\* "move_files.popleft()"
PopLeft(q) == [job |-> Head(q), rest |-> Tail(q)]

\* Sleeps the same time again.
NextErrorSleepSame(t) == t

\* "error_sleep_s *= 2"
NextErrorSleep(t) == t * 2

\* What client.download_media may do: return the path of the downloaded
\* file, raise ValueError, or raise another exception.
DownloadOutcomes == {"ok", "ValueError", "error"}

syncVarsButDb == <<remote, postsLeft, cfg, committed, pc, ids, from_id, last_id,
                   n, has, page, m, takeout, exit_code, runsLeft, log, fetched,
                   pending, hiCommitted, start, prev, nego, error, calls>>

\* _get_messages comes to the next message with a file: _get_media calls
\* _download_media, "error_sleep_s = 60".
StartDownload ==
    /\ dpc = "between"
    /\ dmsg < 2 * MaxMedia
    /\ dmsg' = dmsg + 2
    /\ error_sleep_s' = FirstErrorSleep
    /\ sleeps' = <<>>
    /\ dpc' = "download"
    /\ UNCHANGED <<move_files, move_event, exit_signaled, wpc, job, tmpdir,
                   mediadir, submitted, moved>>
    /\ UNCHANGED <<syncVars, recVars>>

\* Every download is written where the message's file was written.
TmpFileAtPayload(step, i) == <<i, "file">>

\* The file in the temp dir that a download of the main flow writes:
\* download_media(msg, file=self.media_tmp_dir), the same with thumb=1, and
\* download_profile_photo(user, file=self.media_tmp_dir).
TmpFileOf(step, i) ==
    <<i, IF step = "download" THEN "file"
         ELSE IF step = "thumb" THEN "thumb"
         ELSE "avatar">>

\* "fpath = await self.client.download_media(msg, file=self.media_tmp_dir)":
\* the file is in the temp dir and the loop is left, or ValueError is caught,
\* or another exception leaves _download_media and sync().
DownloadMedia(outcome) ==
    /\ dpc = "download"
    /\ outcome = "ValueError" => Len(sleeps) < MaxFails
    /\ tmpdir' = IF outcome = "ok" THEN tmpdir \cup {TmpFileOf(dpc, dmsg)}
                 ELSE tmpdir
    /\ dpc' = IF outcome = "ok" THEN "fmove"
              ELSE IF outcome = "ValueError" THEN "sleep"
              ELSE "crashed"
    /\ UNCHANGED <<move_files, move_event, exit_signaled, wpc, job, mediadir,
                   dmsg, error_sleep_s, sleeps, submitted, moved>>
    /\ UNCHANGED <<syncVars, recVars>>

\* "time.sleep(error_sleep_s)", "error_sleep_s *= 2", and back to the
\* download.
ErrorSleep ==
    /\ dpc = "sleep"
    /\ sleeps' = Append(sleeps, error_sleep_s)
    /\ error_sleep_s' = NextErrorSleep(error_sleep_s)
    /\ dpc' = "download"
    /\ UNCHANGED <<move_files, move_event, exit_signaled, wpc, job, tmpdir,
                   mediadir, dmsg, submitted, moved>>
    /\ UNCHANGED <<syncVars, recVars>>

\* fmove, "move_files.append((src, dest))", for the file, the thumbnail
\* or the avatar.
FmoveAppend ==
    /\ dpc \in {"fmove", "tfmove", "afmove"}
    /\ LET j == <<dmsg, IF dpc = "fmove" THEN "file"
                        ELSE IF dpc = "tfmove" THEN "thumb"
                        ELSE "avatar">> IN
       /\ move_files' = Append(move_files, j)
       /\ submitted' = Append(submitted, j)
    /\ dpc' = IF dpc = "fmove" THEN "fmove_set"
              ELSE IF dpc = "tfmove" THEN "tfmove_set"
              ELSE "afmove_set"
    /\ UNCHANGED <<move_event, exit_signaled, wpc, job, tmpdir, mediadir,
                   dmsg, error_sleep_s, sleeps, moved>>
    /\ UNCHANGED <<syncVars, recVars>>

\* fmove, "move_event.set()"; after the file of a photo the thumbnail is
\* next, otherwise _download_media returns and _get_messages goes on to
\* _get_user; after the avatar _download_avatar returns.
FmoveSet ==
    /\ dpc \in {"fmove_set", "tfmove_set", "afmove_set"}
    /\ move_event' = TRUE
    /\ dpc' = IF dpc = "fmove_set" /\ IsPhoto(dmsg) THEN "thumb"
              ELSE IF dpc = "afmove_set" THEN "record"
              ELSE "avatar"
    /\ UNCHANGED <<move_files, exit_signaled, wpc, job, tmpdir, mediadir,
                   dmsg, error_sleep_s, sleeps, submitted, moved>>
    /\ UNCHANGED <<syncVars, recVars>>

\* "tpath = await self.client.download_media(msg, .., thumb=1)": no handler
\* around it, so every exception leaves _download_media and sync().
DownloadThumb(outcome) ==
    /\ dpc = "thumb"
    /\ tmpdir' = IF outcome = "ok" THEN tmpdir \cup {TmpFileOf(dpc, dmsg)}
                 ELSE tmpdir
    /\ dpc' = IF outcome = "ok" THEN "tfmove" ELSE "crashed"
    /\ UNCHANGED <<move_files, move_event, exit_signaled, wpc, job, mediadir,
                   dmsg, error_sleep_s, sleeps, submitted, moved>>
    /\ UNCHANGED <<syncVars, recVars>>

\* The avatar files of a sender in the media dir:
\* "glob.iglob(fpath_prefix + '*')"
CachedAvatars(u) ==
    {f \in mediadir : f[2] = "avatar" /\ AvatarNameOf(f).id = u}

\* What client.download_profile_photo may do: return the path of the
\* downloaded photo, return None (no profile photo), or raise.
ProfilePhotoOutcomes == {"ok", "none", "error"}

\* _get_user calls _download_avatar for the sender of the message.  A file
\* of the sender found in the media dir is returned without a download;
\* otherwise the photo is downloaded into the temp dir and handed to
\* fmove.  Without a photo the avatar is None; an exception is logged by
\* _get_user and the avatar is None.  rec holds _get_user's avatar.
DownloadAvatar(outcome) ==
    /\ dpc = "avatar"
    /\ IF CachedAvatars(SenderOf(dmsg)) # {}
         THEN /\ outcome = "ok"
              /\ \E f \in CachedAvatars(SenderOf(dmsg)) :
                     rec' = [kind |-> "avatar", avatar |-> AvatarNameOf(f)]
              /\ dpc' = "record"
              /\ UNCHANGED tmpdir
         ELSE IF outcome = "ok"
         THEN /\ tmpdir' = tmpdir \cup {TmpFileOf(dpc, dmsg)}
              /\ rec' = [kind |-> "avatar",
                         avatar |-> AvatarNameOf(<<dmsg, "avatar">>)]
              /\ dpc' = "afmove"
         ELSE /\ rec' = [kind |-> "avatar", avatar |-> NoName]
              /\ dpc' = "record"
              /\ UNCHANGED tmpdir
    /\ UNCHANGED <<move_files, move_event, exit_signaled, wpc, job, mediadir,
                   dmsg, error_sleep_s, sleeps, submitted, moved>>
    /\ UNCHANGED <<syncVars, raw>>

\* _get_messages yields the message and sync() passes its user to
\* insert_user and its Media record to insert_media.
RecordMedia ==
    /\ dpc = "record"
    /\ db' = InsertMedia([db EXCEPT !.users =
                              Upsert(@, [id |-> SenderOf(dmsg),
                                         avatar |-> rec.avatar])],
                         dmsg)
    /\ rec' = Pending
    /\ dpc' = "between"
    /\ UNCHANGED <<move_files, move_event, exit_signaled, wpc, job, tmpdir,
                   mediadir, dmsg, error_sleep_s, sleeps, submitted, moved>>
    /\ UNCHANGED <<syncVarsButDb, raw>>

\* finish_moving_thread, "exit_signaled = True": the main flow has ended,
\* after a message or with an exception.
FinishSignal ==
    /\ dpc \in {"between", "crashed"}
    /\ exit_signaled' = TRUE
    /\ dpc' = "finish"
    /\ UNCHANGED <<move_files, move_event, wpc, job, tmpdir, mediadir, dmsg,
                   error_sleep_s, sleeps, submitted, moved>>
    /\ UNCHANGED <<syncVars, recVars>>

\* finish_moving_thread, "if moving_thread.is_alive(): .. move_event.set()"
FinishWake ==
    /\ dpc = "finish"
    /\ IF wpc # "dead"
         THEN move_event' = TRUE /\ dpc' = "join"
         ELSE dpc' = "exited" /\ UNCHANGED move_event
    /\ UNCHANGED <<move_files, exit_signaled, wpc, job, tmpdir, mediadir, dmsg,
                   error_sleep_s, sleeps, submitted, moved>>
    /\ UNCHANGED <<syncVars, recVars>>

\* finish_moving_thread, "moving_thread.join()" returns when the thread has
\* ended.
FinishJoin ==
    /\ dpc = "join"
    /\ wpc = "dead"
    /\ dpc' = "exited"
    /\ UNCHANGED <<move_files, move_event, exit_signaled, wpc, job, tmpdir,
                   mediadir, dmsg, error_sleep_s, sleeps, submitted, moved>>
    /\ UNCHANGED <<syncVars, recVars>>

\* moving_thread_fn, "move_event.wait()" returns once the event is set.
WorkerWait ==
    /\ wpc = "wait"
    /\ move_event
    /\ wpc' = "clear"
    /\ UNCHANGED <<move_files, move_event, exit_signaled, job, tmpdir,
                   mediadir, dpc, dmsg, error_sleep_s, sleeps, submitted,
                   moved>>
    /\ UNCHANGED <<syncVars, recVars>>

\* moving_thread_fn, "move_event.clear()"
WorkerClear ==
    /\ wpc = "clear"
    /\ move_event' = FALSE
    /\ wpc' = "pop"
    /\ UNCHANGED <<move_files, exit_signaled, job, tmpdir, mediadir, dpc, dmsg,
                   error_sleep_s, sleeps, submitted, moved>>
    /\ UNCHANGED <<syncVars, recVars>>

\* moving_thread_fn, "src, dest = move_files.popleft()" and its handler: on
\* an empty queue "continue" unless exit is signalled; if it is, control
\* goes on to shutil.move with src and dest as they were.
WorkerPop ==
    /\ wpc = "pop"
    /\ IF move_files # <<>>
         THEN /\ job' = PopLeft(move_files).job
              /\ move_files' = PopLeft(move_files).rest
              /\ wpc' = "move"
         ELSE /\ wpc' = IF exit_signaled THEN "move" ELSE "wait"
              /\ UNCHANGED <<job, move_files>>
    /\ UNCHANGED <<move_event, exit_signaled, tmpdir, mediadir, dpc, dmsg,
                   error_sleep_s, sleeps, submitted, moved>>
    /\ UNCHANGED <<syncVars, recVars>>

\* moving_thread_fn, "shutil.move(src, dest)" begins.  With src unbound
\* (UnboundLocalError) or naming no file (FileNotFoundError) the exception
\* ends the thread.
WorkerMove ==
    /\ wpc = "move"
    /\ wpc' = IF job = NoJob \/ job \notin tmpdir THEN "dead" ELSE "moving"
    /\ UNCHANGED <<move_files, move_event, exit_signaled, job, tmpdir,
                   mediadir, dpc, dmsg, error_sleep_s, sleeps, submitted,
                   moved>>
    /\ UNCHANGED <<syncVars, recVars>>

\* moving_thread_fn, shutil.move returns: the file is in media_dir and no
\* longer in the temp dir; back to "move_event.wait()".
WorkerMoved ==
    /\ wpc = "moving"
    /\ tmpdir' = tmpdir \ {job}
    /\ mediadir' = mediadir \cup {job}
    /\ moved' = Append(moved, job)
    /\ wpc' = "wait"
    /\ UNCHANGED <<move_files, move_event, exit_signaled, job, dpc, dmsg,
                   error_sleep_s, sleeps, submitted>>
    /\ UNCHANGED <<syncVars, recVars>>

NextMedia ==
    \/ StartDownload
    \/ \E outcome \in DownloadOutcomes : DownloadMedia(outcome)
    \/ ErrorSleep
    \/ FmoveAppend
    \/ FmoveSet
    \/ \E outcome \in {"ok", "error"} : DownloadThumb(outcome)
    \/ \E outcome \in ProfilePhotoOutcomes : DownloadAvatar(outcome)
    \/ RecordMedia
    \/ FinishSignal
    \/ FinishWake
    \/ FinishJoin
    \/ WorkerWait
    \/ WorkerClear
    \/ WorkerPop
    \/ WorkerMove
    \/ WorkerMoved

\* The media path with an empty store and empty directories.
InitMedia ==
    /\ remote = <<>>
    /\ postsLeft = 0
    /\ cfg = [fetch_batch_size |-> 1, fetch_limit |-> 0, use_takeout |-> FALSE]
    /\ runsLeft = 0
    /\ InitRun
    /\ InitMover
    /\ InitRec

SpecMedia == InitMedia /\ [][NextMedia]_vars

\* The steps of the moving thread, a thread of its own that runs whenever
\* it can (threading.Thread(target=moving_thread_fn), started at import).
MovingThread ==
    \/ WorkerWait
    \/ WorkerClear
    \/ WorkerPop
    \/ WorkerMove
    \/ WorkerMoved

\* The steps of the main flow on the media path, up to the last message.
MainFlow ==
    \/ StartDownload
    \/ \E outcome \in DownloadOutcomes : DownloadMedia(outcome)
    \/ ErrorSleep
    \/ FmoveAppend
    \/ FmoveSet
    \/ \E outcome \in {"ok", "error"} : DownloadThumb(outcome)
    \/ \E outcome \in ProfilePhotoOutcomes : DownloadAvatar(outcome)
    \/ RecordMedia

\* The media path with the scheduling the interpreter gives: the moving
\* thread is never starved, the main flow goes on until it has handled its
\* last message or has crashed, and finish_moving_thread, once entered,
\* goes on to its set() and its join().  When the process comes to its end
\* (the exit signal) is left open.
SpecMediaFair ==
    /\ InitMedia
    /\ [][NextMedia]_vars
    /\ WF_vars(MovingThread)
    /\ WF_vars(MainFlow)
    /\ WF_vars(FinishWake)
    /\ WF_vars(FinishJoin)

(***************************************************************************)
(* Records made from raw provider objects: _make_poll, _get_user, the      *)
(* Message of _get_messages and its rows, the MIME filter of _get_media,   *)
(* and the file name of _download_media.  The answers of a poll are        *)
(* numbered, the number standing for the answer's text; None is Python's   *)
(* None.                                                                   *)
(***************************************************************************)
None == "None"

\* A poll as the provider sends it: the number of answers, the per-answer
\* results (empty: the provider sent none) and total_voters.
PollResult == [voters : 0..MaxVoters, correct : BOOLEAN]

PollInputs ==
    [kind : {"poll"}, id : {1}, answers : 0..MaxAnswers,
     results : UNION {[1..k -> PollResult] : k \in 0..MaxResults},
     total_voters : 0..MaxVoters]

\* "r.voters / total * 100 if total > 0 else 0"; the quotient is kept as
\* numerator and denominator.
Percent(voters, total) ==
    IF total > 0 THEN [num |-> voters * 100, den |-> total] ELSE 0

\* Sync._make_poll: None when there are no results; otherwise one option
\* per answer, and count, percent and correct are set on the options that
\* have a result; a result beyond the last option raises IndexError.
MakePollOf(p) ==
    IF p.results = <<>>
      THEN [kind |-> "none"]
    ELSE IF Len(p.results) > p.answers
      THEN [kind |-> "error", error |-> "IndexError"]
    ELSE [kind |-> "media", id |-> p.id, type |-> "poll",
          description |->
              [i \in 1..p.answers |->
                  IF i <= Len(p.results)
                    THEN [label |-> i, count |-> p.results[i].voters,
                          percent |-> Percent(p.results[i].voters,
                                              p.total_voters),
                          correct |-> p.results[i].correct]
                    ELSE [label |-> i, count |-> 0, correct |-> FALSE]]]

MakePoll ==
    /\ raw.kind = "poll"
    /\ rec = Pending
    /\ rec' = MakePollOf(raw)
    /\ UNCHANGED <<raw, syncVars, moverVars>>

\* A sender as the provider sends it.  A ChannelForbidden has an id and a
\* title; a User or Channel has a username (or none), flags, and for a User
\* first and last name.  download_avatars is the configuration.
SenderIds == {1, 2}

IdStr(i) == IF i = 1 THEN "1" ELSE "2"

SenderInputs ==
    [kind : {"ChannelForbidden", "User", "Channel"}, id : SenderIds,
     title : {"A Channel"}, username : {None, "name"},
     first_name : {"First"}, last_name : {"Last"},
     bot : BOOLEAN, scam : BOOLEAN, fake : BOOLEAN,
     download_avatars : BOOLEAN]

\* What _download_avatar may do: return a file name (cached or downloaded),
\* return None (no profile photo), or raise.
AvatarOutcomes == {"file", "none", "raises"}

AvatarName(i) == IF i = 1 THEN "avatar_1 photo.jpg" ELSE "avatar_2 photo.jpg"

\* Names the forbidden channel by its id.
ForbiddenUserById(u) ==
    [id |-> u.id, username |-> IdStr(u.id), first_name |-> None,
     last_name |-> None, tags |-> <<>>, avatar |-> None]

\* _get_user, "if isinstance(u, telethon.tl.types.ChannelForbidden)"
ForbiddenUser(u) ==
    [id |-> u.id, username |-> u.title, first_name |-> None,
     last_name |-> None, tags |-> <<>>, avatar |-> None]

\* _get_user, the tags
Tags(u) ==
    (IF u.kind = "User" /\ u.bot THEN <<"bot">> ELSE <<>>)
        \o (IF u.scam THEN <<"scam">> ELSE <<>>)
        \o (IF u.fake THEN <<"fake">> ELSE <<>>)

\* _get_user, the record of any other sender
NormalUser(u, avatar) ==
    [id |-> u.id,
     username |-> IF u.username # None THEN u.username ELSE IdStr(u.id),
     first_name |-> IF u.kind = "User" THEN u.first_name ELSE None,
     last_name |-> IF u.kind = "User" THEN u.last_name ELSE None,
     tags |-> Tags(u),
     avatar |-> avatar]

\* Keeps a file name when the download has raised.
AvatarOfKeepName(u, outcome) ==
    IF outcome = "none" THEN None ELSE AvatarName(u.id)

\* _get_user, "avatar = None .. try: fname = await self._download_avatar(u);
\* avatar = fname; except Exception: logging.error(..)"
AvatarOf(u, outcome) ==
    IF outcome = "file" THEN AvatarName(u.id) ELSE None

\* Whether _get_user calls _download_avatar for this sender.
CallsAvatar(u) == u.kind # "ChannelForbidden" /\ u.download_avatars

\* Sync._get_user: the record made of a sender, outcome being what
\* _download_avatar does when it is called.
UserOf(u, outcome) ==
    IF u.kind = "ChannelForbidden" THEN ForbiddenUser(u)
    ELSE NormalUser(u, IF u.download_avatars THEN AvatarOf(u, outcome)
                       ELSE None)

\* Sync._get_user.  avatar_calls counts the calls of _download_avatar and
\* avatar_outcome is what the call did; an exception of that call is logged
\* and the avatar stays None.
GetUser(outcome) ==
    /\ raw.kind \in {"ChannelForbidden", "User", "Channel"}
    /\ rec = Pending
    /\ CallsAvatar(raw) \/ outcome = "none"
    /\ rec' = [kind |-> "user", user |-> UserOf(raw, outcome),
               avatar_calls |-> IF CallsAvatar(raw) THEN 1 ELSE 0,
               avatar_outcome |-> outcome]
    /\ UNCHANGED <<raw, syncVars, moverVars>>

\* A datetime of the provider (whole seconds, in UTC), Python's None for a
\* message that was never edited, and SQL's NULL.
DateAt(t) == [secs |-> t, tz |-> "UTC"]
NoDate == [none |-> TRUE]
Null == [null |-> TRUE]

\* strftime("%Y-%m-%d %H:%M:%S"): the text of the date and time, without
\* the zone.
Strftime(d) == [text |-> d.secs]

\* The senders of the messages below: users with a name, no flags, and
\* avatar download configured.
MsgSenders ==
    {u \in SenderInputs : /\ u.kind = "User"
                          /\ u.username = "name"
                          /\ ~u.bot /\ ~u.scam /\ ~u.fake
                          /\ u.download_avatars}

\* A message of the page as the provider sends it: no media, no action, no
\* reply.
MessageInputs ==
    [kind : {"message"}, id : 1..MaxMsg, date : {DateAt(1)},
     edit_date : {NoDate, DateAt(2)},
     raw_text : {"first text", "edited text"},
     sender : MsgSenders]

\* _get_messages, "yield Message(..)" for such a message
MessageOf(msg, outcome) ==
    [type |-> "message", id |-> msg.id, date |-> msg.date,
     edit_date |-> msg.edit_date, content |-> msg.raw_text,
     reply_to |-> None, user |-> UserOf(msg.sender, outcome),
     media |-> None]

\* " ".join(u.tags): the tags with a space between them.
JoinTags(tags) ==
    [j \in 1..(IF tags = <<>> THEN 0 ELSE 2 * Len(tags) - 1) |->
        IF j % 2 = 1 THEN tags[(j + 1) \div 2] ELSE " "]

\* DB.insert_user: the row written for a User.
FullUserRow(u) ==
    [id |-> u.id, username |-> u.username, first_name |-> u.first_name,
     last_name |-> u.last_name, tags |-> JoinTags(u.tags),
     avatar |-> u.avatar]

\* DB.insert_message: the row written for a Message.
FullMessageRow(msg) ==
    [id |-> msg.id, type |-> msg.type, date |-> Strftime(msg.date),
     edit_date |-> IF msg.edit_date # NoDate THEN Strftime(msg.edit_date)
                   ELSE Null,
     content |-> msg.content, reply_to |-> msg.reply_to,
     user_id |-> msg.user.id,
     media_id |-> IF msg.media # None THEN msg.media.id ELSE None]

\* Adds the message's row and keeps the one stored before.
PersistKeepOld(store, msg) ==
    [store EXCEPT !.users = Upsert(@, FullUserRow(msg.user)),
                  !.messages = InsertNoReplace(@, FullMessageRow(msg))]

\* Sync.sync, the loop body for a message without media: insert_user and
\* insert_message.
Persist(store, msg) ==
    [store EXCEPT !.users = Upsert(@, FullUserRow(msg.user)),
                  !.messages = Upsert(@, FullMessageRow(msg))]

\* The rows of a table that have this id.
RowsWithId(tbl, i) == {r \in BagToSet(tbl) : r.id = i}

\* _get_messages yields the Message made of the raw message; outcome is
\* what _download_avatar does for its sender.
GetMessage(outcome) ==
    /\ raw.kind = "message"
    /\ rec = Pending
    /\ rec' = [kind |-> "message", msg |-> MessageOf(raw, outcome),
               avatar_outcome |-> outcome]
    /\ UNCHANGED <<raw, syncVars, moverVars>>

\* Sync.sync writes the yielded message.  before keeps, as history, the
\* rows that were stored under the message's id.
PersistMessage ==
    /\ rec.kind = "message"
    /\ db' = Persist(db, rec.msg)
    /\ rec' = [kind |-> "stored", msg |-> rec.msg,
               avatar_outcome |-> rec.avatar_outcome,
               before |-> RowsWithId(db.messages, rec.msg.id)]
    /\ UNCHANGED <<raw, syncVarsButDb, moverVars>>

\* "async for m in self._get_messages(..)": the next message of the page.
NextRaw ==
    /\ rec.kind = "stored"
    /\ raw' \in MessageInputs
    /\ rec' = Pending
    /\ UNCHANGED <<syncVars, moverVars>>

\* A photo, document or contact attachment as _get_media sees it: the MIME
\* type of msg.file (None: the message has no file, or the file has no MIME
\* type), and the configuration.  A photo's file is a JPEG; a contact has
\* no file (the provider's msg.file is None for it).
AttachmentInputs ==
    {a \in [kind : {"attachment"}, id : {1},
            media : {"photo", "document", "contact"},
            mime : {None, "image/jpeg", "application/pdf"},
            download_media : BOOLEAN,
            media_mime_types : {<<>>, <<"image/jpeg">>,
                                <<"application/pdf", "video/mp4">>}] :
        /\ a.media = "photo" => a.mime = "image/jpeg"
        /\ a.media = "contact" => a.mime = None}

\* _get_media, "if self.config["media_mime_types"]: if hasattr(msg, "file")
\* and hasattr(msg.file, "mime_type") and msg.file.mime_type: if
\* msg.file.mime_type not in self.config["media_mime_types"]: .. return"
SkippedByMime(a) ==
    /\ a.media_mime_types # <<>>
    /\ a.mime # None
    /\ \A j \in 1..Len(a.media_mime_types) : a.media_mime_types[j] # a.mime

\* _get_media for a photo, document or contact: downloads counts the calls
\* of _download_media.  Without a download the method returns None.
GetMediaOf(a) ==
    IF a.download_media /\ ~SkippedByMime(a)
      THEN [kind |-> "media", id |-> a.id, type |-> "photo", downloads |-> 1]
      ELSE [kind |-> "none", downloads |-> 0]

GetMedia ==
    /\ raw.kind = "attachment"
    /\ rec = Pending
    /\ rec' = GetMediaOf(raw)
    /\ UNCHANGED <<raw, syncVars, moverVars>>

\* File names are sequences of characters.  A downloaded file's name is a
\* run of "a", then nothing, or a dot and a run of "x".
Repeat(c, k) == [j \in 1..k |-> c]

StemLens == 0..2 \cup (MaxStem - NearLimit)..MaxStem

Basenames ==
    {Repeat("a", sl) \o x :
        sl \in StemLens,
        x \in {<<>>} \cup {<<".">> \o Repeat("x", k) : k \in 0..MaxExt}}
    \ {<<>>}

FileMsgIds == {7, 1234567}

FileInputs == [kind : {"file"}, id : FileMsgIds, basename : Basenames]

\* str(k) for k >= 0
RECURSIVE Digits(_)
Digits(k) ==
    LET d == <<"0", "1", "2", "3", "4", "5", "6", "7", "8", "9">>[(k % 10) + 1]
    IN  IF k < 10 THEN <<d>> ELSE Digits(k \div 10) \o <<d>>

\* s[:k] for k >= 0
Take(s, k) == SubSeq(s, 1, Min(k, Len(s)))

\* os.path.splitext of a name without a directory: the extension starts at
\* the last dot, unless only dots come before it.
SplitExt(b) ==
    LET dots == {j \in 1..Len(b) : b[j] = "."}
        last == IF dots = {} THEN 0 ELSE SetMax(dots)
    IN  IF last > 0 /\ \E j \in 1..(last - 1) : b[j] # "."
          THEN [stem |-> SubSeq(b, 1, last - 1),
                ext |-> SubSeq(b, last, Len(b))]
          ELSE [stem |-> b, ext |-> <<>>]

\* Cuts the whole name, extension included.
NewNameCutWhole(i, b) == Take(Digits(i) \o <<" ">> \o b, NameLimit)

\* _download_media, from "stem, ext = os.path.splitext(basename)" to
\* "newname = f'{msg.id} {stem}'[:250 - len(ext)] + ext"
NewName(i, b) ==
    LET se == SplitExt(b)
        long == Len(se.ext) > ExtLimit
        stem == IF long THEN b ELSE se.stem
        ext == IF long THEN <<>> ELSE se.ext
    IN  Take(Digits(i) \o <<" ">> \o stem, NameLimit - Len(ext)) \o ext

MakeName ==
    /\ raw.kind = "file"
    /\ rec = Pending
    /\ rec' = [kind |-> "name", newname |-> NewName(raw.id, raw.basename)]
    /\ UNCHANGED <<raw, syncVars, moverVars>>

NextRecords ==
    \/ MakePoll
    \/ \E outcome \in AvatarOutcomes : GetUser(outcome)
    \/ \E outcome \in AvatarOutcomes : GetMessage(outcome)
    \/ PersistMessage
    \/ NextRaw
    \/ GetMedia
    \/ MakeName

\* A raw poll, sender, message, attachment or downloaded file in hand,
\* nothing made of it yet.
InitRecords ==
    /\ remote = <<>>
    /\ postsLeft = 0
    /\ cfg = [fetch_batch_size |-> 1, fetch_limit |-> 0, use_takeout |-> FALSE]
    /\ runsLeft = 0
    /\ InitRun
    /\ InitMover
    /\ raw \in PollInputs \cup SenderInputs \cup MessageInputs
                \cup AttachmentInputs \cup FileInputs
    /\ rec = Pending

SpecRecords == InitRecords /\ [][NextRecords]_vars

Next ==
    \/ \E k \in BOOLEAN : Post(k)
    \/ \E a \in IdLists, f \in FromIds : StartRun(a, f)
    \/ \E a \in IdLists \ {<<>>} : StartRun(a, FromIdBelowOne)
    \/ \E signal \in TakeoutSignals : TakeoutAttempt(signal)
    \/ OperatorConfirms
    \/ TakeoutExhausted
    \/ ResolveGroup
    \/ Fetch
    \/ FloodWait
    \/ NextMessage
    \/ StepInsertMedia
    \/ StepInsertMessage
    \/ PageEnd
    \/ Sleep
    \/ FinalCommit
    \/ FinishTakeout
    \/ Interrupt
    \/ ProcessExit

Spec == Init /\ [][Next]_vars

SpecBig == InitBig /\ [][Next]_vars

\* The steps of the fetch loop of sync(): the page request, the messages
\* of the page, the page's end and the sleep before the next request.
FetchLoop ==
    \/ Fetch
    \/ NextMessage
    \/ StepInsertMedia
    \/ StepInsertMessage
    \/ PageEnd
    \/ Sleep

\* A process that makes one run, on a store that is empty before it.
InitOneRun ==
    /\ remote = <<>>
    /\ postsLeft = MaxId
    /\ cfg \in [fetch_batch_size : 1..MaxBatch, fetch_limit : 0..MaxLimit,
                use_takeout : BOOLEAN]
    /\ runsLeft = 1
    /\ InitRun
    /\ InitMover
    /\ InitRec

\* One run with the scheduling of the interpreter: a run that is in its
\* fetch loop and is neither interrupted nor crashed takes its next step
\* (the provider answers, the inserts return, the sleep ends).
SpecFair == InitOneRun /\ [][Next]_vars /\ WF_vars(FetchLoop)

TypeOK ==
    /\ pc \in {"idle"} \cup RunningPcs \cup EndPcs
    /\ n \in Nat
    /\ pending \in Nat
    /\ takeout \in {"none", "open", "finished"}
    /\ exit_code \in {-1, 0, 1}

(***************************************************************************)
(* Vocabulary of the properties.                                           *)
(***************************************************************************)
Range(s) == {s[j] : j \in 1..Len(s)}

\* No id in more than one row, no row twice.
UniqueIds(tbl) ==
    \A r1 \in BagToSet(tbl) :
        /\ CopiesIn(r1, tbl) = 1
        /\ \A r2 \in BagToSet(tbl) : r1.id = r2.id => r1 = r2

UniqueStore(store) ==
    UniqueIds(store.messages) /\ UniqueIds(store.users) /\ UniqueIds(store.media)

\* Remote messages with a sender and an id above c.
UsableAfter(c) == {i \in (c + 1)..remoteMax : HasSender(i)}

\* Message ids the run has added to the durable store.
NewIds == IdsOf(committed.messages) \ IdsOf(start.store.messages)

\* Every message row's media row and user row exist.
ForeignKeysHold(store) ==
    \A r \in BagToSet(store.messages) :
        /\ r.media_id # 0 => r.media_id \in IdsOf(store.media)
        /\ r.user_id \in IdsOf(store.users)

(***************************************************************************)
(* C1.  Within one run, messages are persisted in strictly ascending id    *)
(* order: the ids passed to insert_message increase, and when a message is *)
(* persisted every message with a sender and a smaller id that the run has *)
(* fetched was persisted before it.                                        *)
(***************************************************************************)
C1_AscendingPersistOrder ==
    \A k \in 1..Len(log) :
        /\ \A j \in 1..(k - 1) : log[j] < log[k]
        /\ \A i \in fetched : i < log[k] => \E j \in 1..(k - 1) : log[j] = i

\* A completed run that persisted three messages over two pages.
C1_Witness ==
    pc = "done" /\ Len(log) = 3 /\ cfg.fetch_batch_size = 2

(***************************************************************************)
(* C2.  A completed default run on a store whose highest id is k, with the *)
(* remote holding the messages k+1..k+n, all with a sender, stores exactly *)
(* the n new messages k+1..k+n and the highest stored id becomes k+n.      *)
(* C2_AsClaimed is the claim for every configuration; C2_DefaultSyncStores *)
(* is the claim for the runs whose fetch limit is 0 or at least n.         *)
(***************************************************************************)
C2_k == MaxStoredId(start.store)

C2_Case ==
    /\ pc = "done"
    /\ IsDefault
    /\ UsableAfter(C2_k) = (C2_k + 1)..remoteMax

C2_Stored ==
    /\ NewIds = (C2_k + 1)..remoteMax
    /\ Range(log) = (C2_k + 1)..remoteMax
    /\ n = remoteMax - C2_k
    /\ MaxStoredId(committed) = remoteMax
    /\ \A r \in BagToSet(start.store.messages) :
           CopiesIn(r, committed.messages) = 1

C2_AsClaimed == C2_Case => C2_Stored

C2_DefaultSyncStores ==
    (C2_Case /\ (cfg.fetch_limit = 0 \/ cfg.fetch_limit >= remoteMax - C2_k))
        => C2_Stored

\* Highest stored id 1, messages 2..3 on the remote, one message per page.
C2_Witness ==
    /\ C2_Case
    /\ C2_k = 1
    /\ remoteMax = 3
    /\ cfg.fetch_batch_size = 1
    /\ cfg.fetch_limit = 0

(***************************************************************************)
(* C3.  A run that completes from the same first offset as the completed   *)
(* run before it, against the same remote (and with the same               *)
(* configuration, which is fixed in a behaviour), leaves the store as the  *)
(* first run left it: same rows, same values, no id in two rows.           *)
(***************************************************************************)
C3_Case ==
    /\ pc = "done"
    /\ ids = <<>>
    /\ prev.outcome = "done"
    /\ prev.cursor = start.cursor
    /\ prev.remoteMax = remoteMax

C3_RerunIdempotent ==
    C3_Case => (committed = start.store /\ UniqueStore(committed))

\* The second run persisted two messages again, one of them with media.
C3_Witness ==
    C3_Case /\ n >= 2 /\ from_id > 0

(***************************************************************************)
(* C4.  After an interrupted run, the next default run resumes from the    *)
(* highest id the interrupted run left committed, and every message with a *)
(* sender that the interrupted run had fetched, with an id at or below     *)
(* that cursor, is in the store.  C4_AsClaimed is the claim for every run; *)
(* C4_ResumeAfterInterrupt for the interrupted default runs.               *)
(***************************************************************************)
C4_FetchedBelowCursorStored ==
    \A i \in fetched :
        i <= MaxStoredId(committed) => i \in IdsOf(committed.messages)

C4_AsClaimed ==
    /\ pc = "cancelled" => C4_FetchedBelowCursorStored
    /\ (pc # "idle" /\ IsDefault /\ prev.outcome = "cancelled")
           => start.cursor = prev.resume

C4_ResumeAfterInterrupt ==
    /\ (pc = "cancelled" /\ IsDefault) =>
           /\ C4_FetchedBelowCursorStored
           /\ MaxStoredId(committed) = HighestCommitted
    /\ (pc # "idle" /\ IsDefault /\ prev.outcome = "cancelled" /\ prev.default)
           => start.cursor = prev.resume

\* A default run was interrupted after it had committed message 1 or more,
\* and the next default run has gone on from there.
C4_Witness ==
    /\ pc = "done"
    /\ IsDefault
    /\ prev.outcome = "cancelled"
    /\ prev.default
    /\ prev.resume >= 1
    /\ start.cursor = prev.resume
    /\ n >= 1

C6_ForeignKeys ==
    /\ ForeignKeysHold(db)
    /\ ForeignKeysHold(committed)
    /\ pc = "ins_msg" =>
           /\ MessageRow(m).user_id \in IdsOf(db.users)
           /\ HasMedia(m) => m \in IdsOf(db.media)

\* A committed message row that names a media row.
C6_Witness ==
    /\ pc = "done"
    /\ \E r \in BagToSet(committed.messages) : r.media_id # 0

(***************************************************************************)
(* C7.  If the session was opened in takeout mode, the takeout is finished *)
(* when the fetch loop has ended, after a normal end and after an          *)
(* operator interrupt alike.                                               *)
(***************************************************************************)
C7_TakeoutFinished ==
    (pc \in {"done", "cancelled"} /\ cfg.use_takeout /\ fetched # {})
        => takeout = "finished"

(***************************************************************************)
(* C8.  After an operator interrupt every message persisted before it is   *)
(* committed, and the exit status is not zero.                             *)
(***************************************************************************)
C8_InterruptCommits ==
    pc = "cancelled" => (pending = 0 /\ exit_code # 0)

(***************************************************************************)
(* C9.  With a fetch limit L > 0 a run persists at most L messages, asks   *)
(* for no page once L is reached, and persists exactly L when the remote   *)
(* has at least L messages with a sender after the first offset.           *)
(***************************************************************************)
C9_FetchLimit ==
    (cfg.fetch_limit > 0 /\ ids = <<>>) =>
        /\ n <= cfg.fetch_limit
        /\ pc = "fetch" => n < cfg.fetch_limit
        /\ (pc = "done" /\ Cardinality(UsableAfter(start.cursor)) >= cfg.fetch_limit)
               => n = cfg.fetch_limit

(***************************************************************************)
(* C10.  A run with an id list that ends on its own has persisted every    *)
(* listed message that the remote has with a sender, and nothing else.     *)
(***************************************************************************)
C10_IdListPersisted ==
    (ids # <<>> /\ pc \in {"done", "crashed"}) =>
        /\ \A i \in Range(ids) :
               (i <= remoteMax /\ HasSender(i)) => i \in IdsOf(committed.messages)
        /\ NewIds \subseteq Range(ids)

(***************************************************************************)
(* C11.  A sync that is given both an id list and a from-id is rejected    *)
(* with a non-zero exit status before any provider request and any store   *)
(* write: no session, no request, nothing fetched, nothing written.        *)
(* C11_AsClaimed is the claim for every from-id that is given;             *)
(* C11_RejectBoth for the from-ids above 0.                                *)
(***************************************************************************)
C11_Rejected ==
    /\ pc = "fatal"
    /\ exit_code = 1
    /\ calls = <<>>
    /\ takeout = "none"
    /\ fetched = {}
    /\ log = <<>>
    /\ pending = 0
    /\ db = committed

C11_AsClaimed ==
    (pc # "idle" /\ ids # <<>> /\ from_id # 0) => C11_Rejected

C11_RejectBoth ==
    (pc # "idle" /\ ids # <<>> /\ from_id > 0) => C11_Rejected

\* Rejected on a store that already holds messages, with takeout configured.
C11_Witness ==
    /\ pc = "fatal"
    /\ ids = <<1, 3>>
    /\ from_id = 2
    /\ cfg.use_takeout
    /\ IdsOf(committed.messages) # {}

(***************************************************************************)
(* C14.  With takeout, new_client makes at most 3 takeout attempts; when   *)
(* all 3 have failed it ends with TakeoutFailedError and there is no       *)
(* client: no takeout session, no run.                                     *)
(***************************************************************************)
C14_TakeoutAttempts ==
    /\ nego.retry <= TakeoutTries
    /\ (nego.retry = TakeoutTries /\ pc \notin {"new_client", "cancelled"})
           => (pc = "crashed" /\ error = TakeoutFailed /\ takeout = "none")

(***************************************************************************)
(* C15.  When the provider invalidates the takeout during the negotiation, *)
(* new_client ends with TakeoutInvalidError: no attempt follows and there  *)
(* is no client.                                                           *)
(***************************************************************************)
C15_TakeoutInvalidFatal ==
    (nego.signal = "invalid" /\ pc # "cancelled")
        => (pc = "crashed" /\ error = TakeoutInvalid /\ takeout = "none")

(***************************************************************************)
(* C16.  The group is resolved by get_dialogs followed by get_entity, and  *)
(* both are done before the first page of messages is requested; when the  *)
(* group does not resolve the process exits with status 1 and the run has  *)
(* requested no page and written nothing to the store.                     *)
(***************************************************************************)
C16_Before(a, b) ==
    \A k \in 1..Len(calls) :
        calls[k] = b => \E j \in 1..(k - 1) : calls[j] = a

C16_GroupResolution ==
    /\ C16_Before("get_dialogs", "get_entity")
    /\ C16_Before("get_entity", "get_messages")
    /\ pc \in {"fetch", "iter", "ins_media", "ins_msg", "page_end", "final",
               "takeout", "done"}
           => \E k \in 1..Len(calls) : calls[k] = "get_entity"
    /\ (pc = "fatal" /\ calls # <<>>) =>
           /\ exit_code = 1
           /\ \A k \in 1..Len(calls) : calls[k] # "get_messages"
           /\ fetched = {}
           /\ log = <<>>
           /\ db = committed
           /\ committed = start.store

\* The group did not resolve, on a store that already holds messages.
C16_Witness ==
    /\ pc = "fatal"
    /\ calls = <<"get_dialogs", "get_entity">>
    /\ IdsOf(committed.messages) # {}

(***************************************************************************)
(* C17.  A flood-wait on a page fetch is reported to the sync loop, which  *)
(* goes on: the run is not ended by an exception that has nothing to do    *)
(* with the flood-wait.                                                    *)
(***************************************************************************)
C17_FloodWaitReported ==
    (\E k \in 1..Len(calls) : calls[k] = "FloodWaitError")
        => (pc # "crashed" /\ error = "none")

(***************************************************************************)
(* C12.  The mover moves the jobs in the order of their submission, one at *)
(* a time: the jobs moved so far, followed by the one being moved, are the *)
(* first jobs submitted, in that order, so a job's move begins only when   *)
(* every job submitted before it has been moved; a job being moved has not *)
(* been moved before.                                                      *)
(***************************************************************************)
C12_Started == IF wpc = "moving" THEN Append(moved, job) ELSE moved

C12_FifoOneAtATime ==
    /\ Len(C12_Started) <= Len(submitted)
    /\ \A k \in 1..Len(C12_Started) : C12_Started[k] = submitted[k]
    /\ wpc = "moving" => (job \notin Range(moved) /\ job \in tmpdir)

\* The first job is moved, the second is being moved, the third is queued.
C12_Witness ==
    /\ wpc = "moving"
    /\ Len(moved) = 1
    /\ Len(move_files) = 1
    /\ Len(submitted) = 3

(***************************************************************************)
(* C13.  After finish_moving_thread has signalled the exit and woken the   *)
(* moving thread, the thread moves every job that is queued: when it has   *)
(* come to rest (ended, or waiting with the event clear) the queue is      *)
(* empty and every submitted job has been moved.                           *)
(***************************************************************************)
C13_DrainOnFinish ==
    (/\ exit_signaled
     /\ dpc \in {"join", "exited"}
     /\ wpc = "dead" \/ (wpc = "wait" /\ ~move_event))
        => (move_files = <<>> /\ Range(submitted) \subseteq Range(moved))

(***************************************************************************)
(* C18.  A download that raises the retried error is tried again after a   *)
(* sleep of 60 seconds, then 120, 240, .., each twice the one before; once *)
(* it has succeeded and _download_media has returned, the message has      *)
(* exactly one Media record; and a file is in the media directory only as  *)
(* the result of a move by the mover of a job submitted with fmove.        *)
(***************************************************************************)
C18_MediaRetry ==
    /\ \A k \in 1..Len(sleeps) : sleeps[k] = FirstErrorSleep * 2 ^ (k - 1)
    /\ dpc \in {"download", "sleep"} =>
           error_sleep_s = FirstErrorSleep * 2 ^ Len(sleeps)
    /\ (dpc = "between" /\ dmsg > 0) =>
           /\ CopiesIn(MediaRow(dmsg), db.media) = 1
           /\ UniqueIds(db.media)
           /\ <<dmsg, "file">> \in Range(submitted)
    /\ mediadir = Range(moved)
    /\ Range(moved) \subseteq Range(submitted)
    /\ tmpdir \cap mediadir = {}

\* The download failed twice, then succeeded; the record is written and the
\* file has been moved to the media directory.
C18_Witness ==
    /\ dpc = "between"
    /\ sleeps = <<60, 120>>
    /\ <<dmsg, "file">> \in mediadir
    /\ MediaRow(dmsg) \in BagToSet(db.media)

(***************************************************************************)
(* C19.  For a poll with total_voters = 0 no division by zero occurs and   *)
(* every option of the poll record that is made has percent = 0; a poll    *)
(* without results gets no Media record.                                   *)
(***************************************************************************)
C19_ZeroVoters ==
    (raw.kind = "poll" /\ rec # Pending) =>
        /\ raw.results = <<>> => rec.kind = "none"
        /\ rec.kind = "error" => rec.error # "ZeroDivisionError"
        /\ (raw.total_voters = 0 /\ rec.kind = "media") =>
               \A i \in DOMAIN rec.description :
                   /\ "percent" \in DOMAIN rec.description[i]
                   /\ rec.description[i].percent = 0

(***************************************************************************)
(* C20.  A forbidden channel as sender gives, without an error and without *)
(* a call of the avatar download, with avatar download configured or not,  *)
(* the User record with the channel's id, username = the channel's title,  *)
(* first and last name None, avatar None and no tags.                      *)
(***************************************************************************)
C20_ForbiddenChannel ==
    (raw.kind = "ChannelForbidden" /\ rec # Pending) =>
        /\ rec.kind = "user"
        /\ rec.avatar_calls = 0
        /\ rec.user.id = raw.id
        /\ rec.user.username = raw.title
        /\ rec.user.first_name = None
        /\ rec.user.last_name = None
        /\ rec.user.avatar = None
        /\ rec.user.tags = <<>>

\* The record of a forbidden channel, made with avatar download configured.
C20_Witness ==
    /\ raw.kind = "ChannelForbidden"
    /\ raw.download_avatars
    /\ rec # Pending
    /\ rec.user.username = "A Channel"

(***************************************************************************)
(* C26.  After a takeout "delay" signal new_client does not go on by       *)
(* itself: whenever an attempt can be made, and when the negotiation is    *)
(* given up, every delay signal so far has been followed by the logged     *)
(* guidance and the operator's confirmation; while input() blocks, exactly *)
(* the last delay signal is unconfirmed.                                   *)
(***************************************************************************)
C26_NoSilentRetry ==
    /\ pc = "new_client" => nego.unconfirmed = 0
    /\ pc = "await_input" => (nego.signal = "delay" /\ nego.unconfirmed = 1)
    /\ (pc = "crashed" /\ error = WarningNoMsg) => nego.unconfirmed = 0

\* The third attempt is about to be made after a second delay signal that
\* the operator has confirmed.
C26_Witness ==
    /\ pc = "new_client"
    /\ nego.retry = 2
    /\ nego.signal = "delay"
    /\ nego.unconfirmed = 0

(***************************************************************************)
(* C25.  Pacing.  A page request other than the first of the run is made   *)
(* only out of the sleep for fetch_wait, and that sleep is entered only    *)
(* once, at the end of the page before it, when the loop goes round; it    *)
(* ends with the next request unless the run is interrupted.  After the    *)
(* last page request of the run the loop is left from the page's end       *)
(* without a sleep.                                                        *)
(***************************************************************************)
C25_Pacing ==
    [][ /\ (pc' = "fetch" /\ pc # "fetch") =>
               \/ pc = "sleep"
               \/ pc = "resolve" /\ n = 0 /\ log = <<>>
        /\ (pc' = "sleep" /\ pc # "sleep") =>
               pc = "page_end" /\ has /\ last_id' = m
        /\ (pc = "sleep" /\ pc' # "sleep") => pc' \in {"fetch", "cancelled"}
        /\ (pc = "page_end" /\ pc' \notin {"page_end", "cancelled"}) =>
               pc' = IF has THEN "sleep" ELSE "final"
        /\ (pc' = "final" /\ pc # "final") => pc = "page_end" /\ ~has
      ]_vars

\* The second page request of a run is about to be made, after the sleep
\* that followed a page of two messages.
C25_Witness ==
    /\ pc = "fetch"
    /\ n = 2
    /\ last_id = 2
    /\ has

(***************************************************************************)
(* C24.  Until the first page request of a run the offset is: the id list  *)
(* when one is given; otherwise the from-id when one is given; otherwise   *)
(* the highest id in the store the run started on, 0 for an empty store.   *)
(* A run with a from-id k writes only messages with an id above k.         *)
(* The command lines "--from-id 0" and no --from-id reach sync() alike     *)
(* (from_id = 0 here), so a run with from_id = 0 is a run of either.       *)
(* C24_AsClaimed is the claim for every from-id that is given, 0 as well;  *)
(* C24_FirstOffset takes a from-id of 0 as none.                           *)
(***************************************************************************)
C24_BeforeFirstRequest ==
    \/ pc \in {"new_client", "await_input", "resolve"}
    \/ pc = "fetch" /\ n = 0

C24_OnlyAbove ==
    (ids = <<>> /\ from_id # 0 /\ pc \notin {"idle", "fatal"}) =>
        /\ \A j \in 1..Len(log) : log[j] > from_id
        /\ \A i \in NewIds : i > from_id

C21_AvatarFailure ==
    /\ (raw.kind \in {"User", "Channel"} /\ rec # Pending) =>
           (rec.avatar_outcome = "raises" =>
                /\ rec.kind = "user"
                /\ rec.user.avatar = None
                /\ rec.user = UserOf(raw, "none"))
    /\ (raw.kind = "message" /\ rec # Pending) =>
           (rec.avatar_outcome = "raises" =>
                /\ rec.msg.user.avatar = None
                /\ rec.msg = MessageOf(raw, "none")
                /\ rec.kind = "stored" =>
                       /\ \E r \in BagToSet(db.users) :
                              /\ r.id = raw.sender.id
                              /\ r.avatar = None
                              /\ RowsWithId(db.users, r.id) = {r}
                              /\ CopiesIn(r, db.users) = 1
                       /\ \E r \in BagToSet(db.messages) :
                              r.id = raw.id /\ r.user_id = raw.sender.id)

\* A message is stored whose sender's avatar download raised, next to the
\* message of another sender, who has an avatar.
C21_Witness ==
    /\ raw.kind = "message"
    /\ rec.kind = "stored"
    /\ rec.avatar_outcome = "raises"
    /\ \E r \in BagToSet(db.messages) :
           r.id # raw.id /\ r.user_id # raw.sender.id
    /\ \E r \in BagToSet(db.users) : r.id # raw.sender.id /\ r.avatar # None

(***************************************************************************)
(* C23.  Writing a message leaves exactly one row with its id, which has   *)
(* the content and the edit date (as text, or NULL) of the message just    *)
(* fetched, whatever was stored under that id; every row of another id is  *)
(* what it was, and no row of another id is added.                         *)
(***************************************************************************)
C23_UpsertById ==
    [][ (rec.kind = "message" /\ rec'.kind = "stored") =>
          LET new == RowsWithId(db'.messages, raw.id) IN
          /\ \E r \in new :
                 /\ new = {r}
                 /\ CopiesIn(r, db'.messages) = 1
                 /\ r.content = raw.raw_text
                 /\ r.edit_date = IF raw.edit_date = NoDate THEN Null
                                  ELSE [text |-> raw.edit_date.secs]
                 /\ r.user_id = raw.sender.id
          /\ \A r \in BagToSet(db.messages) \cup BagToSet(db'.messages) :
                 r.id # raw.id =>
                     CopiesIn(r, db'.messages) = CopiesIn(r, db.messages)
      ]_vars

\* An edited message has been written over its first version, next to the
\* row of another message.
C23_Witness ==
    /\ rec.kind = "stored"
    /\ \E old \in rec.before :
           old.content = "first text" /\ old.edit_date = Null
    /\ \E r \in BagToSet(db.messages) :
           /\ r.id = raw.id
           /\ r.content = "edited text"
           /\ r.edit_date = [text |-> 2]
    /\ \E r \in BagToSet(db.messages) : r.id # raw.id

(***************************************************************************)
(* C27.  A photo, document or contact is downloaded only when media        *)
(* download is enabled and either no MIME allow-list is configured or the  *)
(* file's MIME type is in the list; otherwise nothing is downloaded and    *)
(* the message gets no Media record.                                       *)
(***************************************************************************)
C27_Allowed ==
    /\ raw.download_media
    /\ \/ raw.media_mime_types = <<>>
       \/ \E j \in 1..Len(raw.media_mime_types) :
              raw.media_mime_types[j] = raw.mime

C27_DownloadOnlyAllowed ==
    (raw.kind = "attachment" /\ rec # Pending) =>
        /\ rec.downloads = 1 => C27_Allowed
        /\ ~C27_Allowed => (rec.downloads = 0 /\ rec.kind = "none")

(***************************************************************************)
(* C28.  Of a poll with results a Media record is made whose description   *)
(* has one entry per answer, each with exactly the fields label, count,    *)
(* percent and correct, however many per-answer results there are.         *)
(***************************************************************************)
C28_PollDescription ==
    (raw.kind = "poll" /\ rec # Pending /\ raw.results # <<>>) =>
        /\ rec.kind = "media"
        /\ Len(rec.description) = raw.answers
        /\ \A i \in 1..raw.answers :
               DOMAIN rec.description[i]
                   = {"label", "count", "percent", "correct"}

(***************************************************************************)
(* C29.  The final name of a downloaded file has at most 250 characters.   *)
(* An extension of up to 5 characters after the dot is kept whole at the   *)
(* end, before it stands "<id> <stem>", cut at its end when the name would *)
(* be too long.  C29_AsClaimed: a longer extension is not in the name at   *)
(* all; C29_FinalName: a longer extension counts as part of the stem, so   *)
(* the name is "<id> <basename>", cut at its end when it is too long.      *)
(***************************************************************************)
C29_Stem == SplitExt(raw.basename).stem
C29_Ext == SplitExt(raw.basename).ext
C29_Front == Digits(raw.id) \o <<" ">>

C29_KeptExtension ==
    Len(C29_Ext) <= 6 =>
        LET cut == Len(rec.newname) - Len(C29_Ext) IN
        /\ cut >= 0
        /\ SubSeq(rec.newname, cut + 1, Len(rec.newname)) = C29_Ext
        /\ cut <= Len(C29_Front \o C29_Stem)
        /\ SubSeq(rec.newname, 1, cut) = SubSeq(C29_Front \o C29_Stem, 1, cut)
        /\ (Len(C29_Front \o C29_Stem \o C29_Ext) <= 250) =>
               rec.newname = C29_Front \o C29_Stem \o C29_Ext
        /\ (Len(C29_Front \o C29_Stem \o C29_Ext) > 250) =>
               Len(rec.newname) = 250

C29_AsClaimed ==
    (raw.kind = "file" /\ rec # Pending) =>
        /\ Len(rec.newname) <= 250
        /\ C29_KeptExtension
        /\ Len(C29_Ext) > 6 =>
               rec.newname = SubSeq(C29_Front \o C29_Stem, 1,
                                    Min(250, Len(C29_Front \o C29_Stem)))

C29_FinalName ==
    (raw.kind = "file" /\ rec # Pending) =>
        /\ Len(rec.newname) <= 250
        /\ C29_KeptExtension
        /\ Len(C29_Ext) > 6 =>
               rec.newname
                   = SubSeq(C29_Front \o raw.basename, 1,
                            Min(250, Len(C29_Front \o raw.basename)))

\* A name that had to be cut: a stem of 245 characters with an extension
\* of 5 characters after the dot, for a message id of 7 digits.
C29_Witness ==
    /\ raw.kind = "file"
    /\ rec # Pending
    /\ raw.id = 1234567
    /\ Len(C29_Stem) = 245
    /\ Len(C29_Ext) = 6
    /\ Len(rec.newname) = 250

(***************************************************************************)
(* C22.  Once a downloaded file (the message's file, the thumbnail, the    *)
(* avatar) has been handed to fmove, the main flow does not use its path   *)
(* in the temp dir again: the file a download is about to write has not    *)
(* been handed to fmove.  The records refer to a file by the name fmove    *)
(* was given for the media dir: url and thumb of a Media row, avatar of a  *)
(* user row (or by no name at all).                                        *)
(***************************************************************************)
C22_NoTmpPathAfterFmove ==
    /\ dpc \in {"download", "thumb", "avatar"} =>
           TmpFileOf(dpc, dmsg) \notin Range(submitted)
    /\ \A r \in BagToSet(db.media) :
           /\ <<r.id, "file">> \in Range(submitted)
           /\ r.url = FinalName(<<r.id, "file">>)
           /\ IF IsPhoto(r.id)
                THEN /\ <<r.id, "thumb">> \in Range(submitted)
                     /\ r.thumb = FinalName(<<r.id, "thumb">>)
                ELSE r.thumb = NoName
    /\ \A r \in BagToSet(db.users) :
           \/ r.avatar = NoName
           \/ \E f \in Range(submitted) :
                  f[2] = "avatar" /\ r.avatar = FinalName(f)

\* The photo's file, thumbnail and avatar have been handed to fmove and
\* recorded, and the download of the next message's file begins while the
\* mover has not moved them all.
C22_Witness ==
    /\ dpc = "download"
    /\ dmsg = 4
    /\ Len(submitted) = 3
    /\ Len(moved) < 3
    /\ \E r \in BagToSet(db.users) : r.avatar # NoName
    /\ \E r \in BagToSet(db.media) : r.thumb # NoName

(***************************************************************************)
(* C30.  For a photo a thumbnail is downloaded besides the file and handed *)
(* to the mover under a name with the prefix thumb_, which differs from    *)
(* the final name of the photo's file and from the final names of all      *)
(* other files and thumbnails.                                             *)
(***************************************************************************)
C30_ThumbnailName ==
    /\ \A r \in BagToSet(db.media) :
           IsPhoto(r.id) => <<r.id, "thumb">> \in Range(submitted)
    /\ \A k \in 1..Len(submitted) :
           submitted[k][2] = "thumb" =>
               /\ FinalName(submitted[k]).prefix = "thumb_"
               /\ \A j \in 1..Len(submitted) :
                      j # k => FinalName(submitted[j]) # FinalName(submitted[k])

(***************************************************************************)
(* C31.  The avatar of a user is downloaded at most once in a run: once    *)
(* one download of it has been handed to fmove, no later message of the    *)
(* same user leads to another download, however the main flow and the      *)
(* moving thread interleave.                                               *)
(***************************************************************************)
C31_AvatarOnce ==
    \A j, k \in 1..Len(submitted) :
        (/\ submitted[j][2] = "avatar"
         /\ submitted[k][2] = "avatar"
         /\ AvatarNameOf(submitted[j]).id = AvatarNameOf(submitted[k]).id)
            => j = k

(***************************************************************************)
(* C32.  While no shutdown is signalled, every job submitted with fmove is *)
(* eventually moved by the moving thread, also when no further job follows *)
(* it: a submitted job leads to its move or to the exit signal.            *)
(***************************************************************************)
C32_Jobs == {<<i, k>> : i \in 1..(2 * MaxMedia), k \in {"file", "thumb", "avatar"}}

C32_EveryJobMoved ==
    \A j \in C32_Jobs :
        (j \in Range(submitted)) ~> (j \in Range(moved) \/ exit_signaled)

(***************************************************************************)
(* C33.  finish_moving_thread always returns: once the exit is signalled   *)
(* the moving thread ends and the join completes, whatever is queued at    *)
(* that moment.                                                            *)
(***************************************************************************)
C33_FinishReturns == exit_signaled ~> (wpc = "dead" /\ dpc = "exited")

(***************************************************************************)
(* C34.  The moving thread attempts a move only for a job it has just      *)
(* taken from the queue: whenever it is about to call shutil.move, its     *)
(* job is one that was submitted and has not been moved before, also after *)
(* the exit signal; and no job is moved twice.                             *)
(***************************************************************************)
C34_MoveOnlyDequeued ==
    /\ wpc = "move" => (job # NoJob /\ job \notin Range(moved))
    /\ \A j, k \in 1..Len(moved) : moved[j] = moved[k] => j = k

(***************************************************************************)
(* C35.  In a run without id list the offset passed to the page requests   *)
(* strictly increases: it changes only at the end of a page after which    *)
(* the loop goes round, there it grows and stays within the ids of the     *)
(* remote messages, and every request but the first follows such a page    *)
(* end.  So the fetch loop terminates: a run that is about to request a    *)
(* page leaves the loop or ends.                                           *)
(***************************************************************************)
C35_InLoop == {"fetch", "iter", "ins_media", "ins_msg", "sleep"}

C35_OffsetIncreases ==
    /\ [][ (ids = <<>> /\ pc' \in RunningPcs) =>
              /\ (pc = "page_end" /\ pc' = "sleep") =>
                     /\ last_id < last_id'
                     /\ last_id' <= Len(remote)
              /\ pc \in C35_InLoop => last_id' = last_id
              /\ (pc = "page_end" /\ pc' # "sleep") => last_id' = last_id
              /\ (pc' = "fetch" /\ pc # "fetch") => pc \in {"sleep", "resolve"}
         ]_vars
    /\ (pc = "fetch") ~> (pc \in {"final"} \cup EndPcs)

\* The third page request of a run that began at offset 0 with pages of one
\* message has been answered with a message: the offsets were 0, 1 and 2.
C35_Witness ==
    /\ pc = "iter"
    /\ ids = <<>>
    /\ cfg.fetch_batch_size = 1
    /\ start.cursor = 0
    /\ last_id = 2
    /\ page # <<>>

(***************************************************************************)
(* C36.  When a run without id list and without fetch limit has completed  *)
(* normally, every remote message that has a sender and an id above the    *)
(* offset the run began with is in the committed store, also when a        *)
(* fetched page held only messages without a sender.                       *)
(***************************************************************************)
C36_AllUsableStored ==
    (pc = "done" /\ ids = <<>> /\ cfg.fetch_limit = 0)
        => UsableAfter(start.cursor) \subseteq IdsOf(committed.messages)

=============================================================================
